---- MODULE Spec2Model ----
(***************************************************************************)
(* A model of arataga's dns_resolver agent (a_dns_resolver_t) and of its   *)
(* local cache (local_cache_t).                                            *)
(*                                                                         *)
(* The agent is a single-threaded message-driven object: every event       *)
(* handler (on_resolve, on_clear_cache, on_updated_dns_params and the      *)
(* completion handler of async_resolve, handle_resolve_result) runs to     *)
(* completion before the next one starts, so every handler is one action.  *)
(* The agent is followed from its construction on and while it is          *)
(* registered; so_evt_finish only logs, and what waits then is abandoned.  *)
(*                                                                         *)
(* waiting_requests_handler_t, resolve_address_from_list and               *)
(* resolve_info_t::is_outdated are declared in headers; they are modelled  *)
(* after their documented contract.                                        *)
(*                                                                         *)
(* The second part follows one accepted connection through its handlers,   *)
(* connect_method_handler_t and data_transfer_handler_t: every callback    *)
(* (on_start, on_timer, the completion handler of a read or of a write)    *)
(* runs to completion on the connection's strand and is one action.  The   *)
(* base class connection_handler_t, the slot that holds the handler and    *)
(* traffic_limiter_t are declared in headers and are modelled after their  *)
(* documented contract.                                                    *)
(***************************************************************************)
EXTENDS Integers, Sequences, FiniteSets, TLC

(***************************************************************************)
(* Bounds of the model.                                                    *)
(***************************************************************************)
\* How many resolve_request_t messages are delivered in one behaviour.
MaxRequests == 2
\* The steady clock is observed up to this reading (seconds).
MaxTime == 30

(***************************************************************************)
(* Program constants.                                                      *)
(***************************************************************************)
resolve_info_time_to_live == 30

(***************************************************************************)
(* Input domains.                                                          *)
(***************************************************************************)
Names == {"a.test", "b.test"}

ip_version_t == {"ip_v4", "ip_v6"}

\* asio::ip::address values: a family and the address bits.
Addresses ==
    { [family |-> "ip_v4", bits |-> 1],
      [family |-> "ip_v4", bits |-> 2],
      [family |-> "ip_v6", bits |-> 1] }

\* Entries of asio::ip::tcp::resolver::results_type.  The service passed to
\* async_resolve is the empty string, hence port 0 in every endpoint.
ResultEntries == [address : Addresses, port : {0}]

Endpoint(family, bits) ==
    [address |-> [family |-> family, bits |-> bits], port |-> 0]

\* The result lists a successful resolution may deliver: one family only,
\* both families in either order, and different addresses of one family.
ResolverResults ==
    { << Endpoint("ip_v4", 1) >>,
      << Endpoint("ip_v4", 2), Endpoint("ip_v6", 1) >>,
      << Endpoint("ip_v6", 1), Endpoint("ip_v4", 1) >> }

\* asio::error_code values a failed resolution may deliver
\* (asio::error::host_not_found).
ErrorCodes ==
    { [value |-> 1, message |-> "Host not found (authoritative)"] }

\* The error_code of a successful completion (!ec holds).
no_error == [value |-> 0, message |-> "Success"]

\* The requesters: each has its own reply mbox and its own completion token.
\* The requests come from the two requesters in turn.
Requester(req_id) ==
    IF req_id % 2 = 1
    THEN [m_reply_to |-> "mbox_1", m_completion_token |-> "token_1"]
    ELSE [m_reply_to |-> "mbox_2", m_completion_token |-> "token_2"]

\* The time advances in steps of half the time-to-live, so that an entry is
\* seen fresh, at half its time to live and at the very age
\* resolve_info_time_to_live.
ClockStep == resolve_info_time_to_live \div 2

\* The values of cache_cleanup_period (initial and updated).
CleanupPeriods == {ClockStep, 2 * ClockStep}

(***************************************************************************)
(* State.                                                                  *)
(***************************************************************************)
VARIABLES
    pc,                          \* lifecycle of the agent, up to its shutdown
    now,                         \* std::chrono::steady_clock::now(), counted
                                 \* from the start of the agent
    m_cache,                     \* local_cache_t::m_data
    m_waiting_forward_requests,  \* waiting list: name -> pending requests
    resolving,                   \* name -> number of async_resolve in flight
    m_dns_stats,                 \* the three counters
    m_cache_cleanup_period,
    delayed_clear_cache,         \* deadlines of pending clear_cache_t messages
    delivered,                   \* number of resolve_request_t handled so far
    sent,                        \* resolve_reply_t messages sent, in order
    last_cache_op                \* the last modifying call on m_cache, with
                                 \* the n_removed it returned

\* The state of one accepted connection and of the connection handlers that
\* serve it, one after the other, in its I/O slot.
VARIABLES
    config,             \* handler_context_t::config(): io_chunk_size and
                        \* idle_connection_timeout
    steady_now,         \* std::chrono::steady_clock::now() on the connection's
                        \* thread
    slot,               \* number of the handler installed in the slot, 0 if none
    handlers,           \* the handlers made for the connection, in order:
                        \* name, number of on_start calls, terminal events
    sockets,            \* m_connection and m_out_connection: owner, is_open,
                        \* number of close() calls
    m_traffic_limiter,  \* owner of the limiter and the reservations it gave:
                        \* direction, capacity, number of release() calls
    m_created_at,       \* connect_method_handler_t::m_created_at
    m_io_chunk_size,    \* data_transfer_handler_t::m_io_chunk_size
    direction_state,    \* m_user_end and m_target_end, by m_name
    m_last_read_at,     \* data_transfer_handler_t::m_last_read_at
    async_ops,          \* asynchronous operations started and not completed
    stream,             \* by direction: the bytes read from the source, the
                        \* bytes handed to writes on the sink and the bytes
                        \* the sink has got, each in order
    logged,             \* what the last callback logged: level and message
    thrown              \* the exception the last factory call ended with

agent_vars ==
    << pc, now, m_cache, m_waiting_forward_requests, resolving, m_dns_stats,
       m_cache_cleanup_period, delayed_clear_cache, delivered, sent,
       last_cache_op >>

connection_vars ==
    << config, steady_now, slot, handlers, sockets, m_traffic_limiter,
       m_created_at, m_io_chunk_size, direction_state, m_last_read_at,
       async_ops, stream, logged, thrown >>

vars == << agent_vars, connection_vars >>

(***************************************************************************)
(* Helpers for maps (std::map): a map is a function on its set of keys.    *)
(***************************************************************************)
EmptyMap == [k \in {} |-> 0]

MapPut(m, k, v) == [x \in (DOMAIN m) \cup {k} |-> IF x = k THEN v ELSE m[x]]

MapErase(m, k) == [x \in (DOMAIN m) \ {k} |-> m[x]]

RemoveAt(s, i) == [j \in 1..(Len(s) - 1) |-> IF j < i THEN s[j] ELSE s[j + 1]]

(***************************************************************************)
(* std::optional<asio::ip::address>.                                       *)
(***************************************************************************)
nullopt == [has_value |-> FALSE]

Some(a) == [has_value |-> TRUE, value |-> a]

(***************************************************************************)
(* resolve_address_from_list: scan the list in order and return the first  *)
(* element whose family matches; nullopt when none matches.  The extractor *)
(* maps a list element to its address.                                     *)
(***************************************************************************)
identity_extractor == [el \in Addresses |-> el]

endpoint_address_extractor == [el \in ResultEntries |-> el.address]

resolve_address_from_list(list, ip_version, extractor) ==
    LET matching == { i \in 1..Len(list) : extractor[list[i]].family = ip_version }
    IN  IF matching = {}
        THEN nullopt
        ELSE Some(extractor[list[CHOOSE i \in matching : \A j \in matching : i <= j]])

(***************************************************************************)
(* local_cache_t                                                           *)
(***************************************************************************)
\* local_cache_t::resolve
resolve(cache, name, ip_version) ==
    IF name \in DOMAIN cache
    THEN resolve_address_from_list(
             cache[name].m_addresses, ip_version, identity_extractor)
    ELSE nullopt

\* resolve_info_t::is_outdated
is_outdated(info, time_to_live, clock) ==
    clock - info.m_creation_time >= time_to_live

\* remove_outdated_records that leaves the loop after the first erase.
remove_outdated_records_first_only(cache, time_to_live, clock) ==
    LET outdated == { n \in DOMAIN cache : is_outdated(cache[n], time_to_live, clock) }
        erased == IF outdated = {} THEN {} ELSE { CHOOSE n \in outdated : TRUE }
    IN  [ m_data    |-> [n \in (DOMAIN cache) \ erased |-> cache[n]],
          n_removed |-> Cardinality(erased) ]

\* local_cache_t::remove_outdated_records: the cache left and n_removed.
remove_outdated_records(cache, time_to_live, clock) ==
    LET erased == { n \in DOMAIN cache : is_outdated(cache[n], time_to_live, clock) }
    IN  [ m_data    |-> [n \in (DOMAIN cache) \ erased |-> cache[n]],
          n_removed |-> Cardinality(erased) ]

\* local_cache_t::add_records: m_data.emplace inserts a fresh resolve_info_t
\* only when the name is absent and otherwise yields the present entry; the
\* addresses of the results are then pushed back onto that entry.
add_records(cache, name, results, clock) ==
    LET emplaced ==
            IF name \in DOMAIN cache
            THEN cache[name]
            ELSE [m_addresses |-> << >>, m_creation_time |-> clock]
        pushed ==
            [i \in 1..Len(results) |-> results[i].address]
    IN  MapPut(cache, name,
               [emplaced EXCEPT !.m_addresses = @ \o pushed])

(***************************************************************************)
(* Messages.                                                               *)
(***************************************************************************)
\* resolve_request_t.  The requesters number their requests, so m_req_id is
\* the number of the request in the order of delivery.
resolve_request_t(req_id) ==
    { [ m_req_id           |-> req_id,
        m_name             |-> name,
        m_ip_version       |-> ip_version,
        m_reply_to         |-> Requester(req_id).m_reply_to,
        m_completion_token |-> Requester(req_id).m_completion_token ] :
      name \in Names, ip_version \in ip_version_t }

\* The requests that may be delivered.
RequestMessages == UNION { resolve_request_t(req_id) : req_id \in 1..MaxRequests }

\* forward::successful_resolve_t
successful_resolve_t(address) ==
    [kind |-> "successful_resolve_t", m_address |-> address]

\* forward::failed_resolve_t
failed_resolve_t(error_desc) ==
    [kind |-> "failed_resolve_t", m_error_desc |-> error_desc]

\* so_5::send< resolve_reply_t >( reply_to, req_id, completion_token, result )
resolve_reply_t(reply_to, req_id, completion_token, result) ==
    [ mbox               |-> reply_to,
      m_req_id           |-> req_id,
      m_completion_token |-> completion_token,
      m_result           |-> result ]

\* make_error_description: fmt::format( "{}({})", ec.message(), ec.value() )
make_error_description(ec) ==
    ec.message \o "(" \o ToString(ec.value) \o ")"

(***************************************************************************)
(* waiting_requests_handler_t (m_waiting_forward_requests).                *)
(***************************************************************************)
\* add_request: append the request to the list of the name; the result tells
\* whether it is the first waiter of the name (a resolution is needed).
add_request(waiting, name, req) ==
    [ m_waiting    |->
          MapPut(waiting, name,
                 IF name \in DOMAIN waiting
                 THEN Append(waiting[name], req)
                 ELSE << req >>),
      need_resolve |-> name \notin DOMAIN waiting ]

\* The reply for one waiter of a successful resolution.
reply_from_results(req, results, extractor) ==
    LET address == resolve_address_from_list(results, req.m_ip_version, extractor)
    IN  resolve_reply_t(
            req.m_reply_to, req.m_req_id, req.m_completion_token,
            IF address.has_value
            THEN successful_resolve_t(address.value)
            ELSE failed_resolve_t("no matching address family"))

\* handle_waiting_requests( name, results, logger, extractor ): answer every
\* waiter of the name from the results, in the order of the list, and drop
\* the list.
handle_waiting_requests_results(waiting, name, results, extractor) ==
    [ m_waiting |-> MapErase(waiting, name),
      replies   |->
          IF name \in DOMAIN waiting
          THEN [i \in 1..Len(waiting[name]) |->
                   reply_from_results(waiting[name][i], results, extractor)]
          ELSE << >> ]

\* handle_waiting_requests( name, result, logger ): answer every waiter of
\* the name with one and the same result and drop the list.
handle_waiting_requests_result(waiting, name, result) ==
    [ m_waiting |-> MapErase(waiting, name),
      replies   |->
          IF name \in DOMAIN waiting
          THEN [i \in 1..Len(waiting[name]) |->
                   resolve_reply_t(
                       waiting[name][i].m_reply_to,
                       waiting[name][i].m_req_id,
                       waiting[name][i].m_completion_token,
                       result)]
          ELSE << >> ]

(***************************************************************************)
(* An accepted connection.                                                 *)
(*                                                                         *)
(* The connection handlers of a connection run on one thread: on_start,    *)
(* on_timer and every completion handler run to completion before the next *)
(* one starts, so each of them is one action.  connection_handler_t, with  *)
(* wrap_action_and_handle_exceptions, the completion handlers made by      *)
(* with<...>().make_handler, write_whole, remove_handler, replace_handler  *)
(* and the log_and_remove_connection helpers, and traffic_limiter_t are    *)
(* declared in headers; they are modelled after their documented contract. *)
(***************************************************************************)
\* Each peer sends at most this many bytes and then closes its side.
MaxBytes == 2
\* The steady clock of the connection is observed up to this reading.
MaxClock == 3
\* reserve_read_portion is called at most this many times for a connection.
MaxReservations == 3

\* config().idle_connection_timeout(), in clock readings.
idle_connection_timeout == 2

\* The values of config().io_chunk_size() a connection is served under.
ChunkSizes == {0, 1, 2}

\* The configurations a connection is served under.
Configs ==
    [ io_chunk_size           : ChunkSizes,
      idle_connection_timeout : {idle_connection_timeout} ]

\* direction_state_t::m_name of m_user_end and of m_target_end.
Directions == {"user-end", "target-end"}

\* The direction that the data read from a direction is written to.
Opposite(dir) == IF dir = "user-end" THEN "target-end" ELSE "user-end"

\* direction_state_t::m_channel: m_user_end is bound to m_connection and
\* m_target_end to m_out_connection.
Channels == {"m_connection", "m_out_connection"}

Channel(dir) == IF dir = "user-end" THEN "m_connection" ELSE "m_out_connection"

\* direction_state_t::m_traffic_direction
traffic_direction(dir) == IF dir = "user-end" THEN "from_user" ELSE "from_target"

\* The results an asynchronous operation completes with.
success == "success"

IoErrors == {"eof", "operation_aborted", "connection_reset"}

\* remove_reason_t
remove_reason_t ==
    { "normal_completion", "current_operation_canceled", "io_error",
      "no_activity_for_too_long", "unexpected_and_unsupported_case",
      "unhandled_exception" }

\* The k-th byte a peer sends: the bytes of a stream are told apart by
\* their place in it.
SourceBytes(from, to) == [i \in 1..(to - from + 1) |-> from + i - 1]

\* direction_state_t's constructor: a zeroed buffer of io_chunk_size bytes.
direction_state_t(io_chunk_size) ==
    [ m_data_read                 |-> [i \in 1..io_chunk_size |-> 0],
      m_data_size                 |-> 0,
      m_is_alive                  |-> TRUE,
      m_is_traffic_limit_exceeded |-> FALSE ]

\* No connection is followed: its variables hold nothing.
NoConnection ==
    /\ config = << >>
    /\ steady_now = 0
    /\ slot = 0
    /\ handlers = << >>
    /\ sockets = << >>
    /\ m_traffic_limiter = << >>
    /\ m_created_at = 0
    /\ m_io_chunk_size = 0
    /\ direction_state = << >>
    /\ m_last_read_at = 0
    /\ async_ops = << >>
    /\ stream = << >>
    /\ logged = << >>
    /\ thrown = "none"

\* A connection that is accepted and has no handler yet: its sockets and its
\* traffic limiter are held by the code that will make the first handler.
accepted(cfg) ==
    /\ config = cfg
    /\ steady_now = 0
    /\ slot = 0
    /\ handlers = << >>
    /\ sockets = [c \in Channels |-> [owner |-> 0, is_open |-> TRUE, n_close |-> 0]]
    /\ m_traffic_limiter = [owner |-> 0, is_null |-> FALSE, reservations |-> << >>]
    /\ m_created_at = 0
    /\ m_io_chunk_size = 0
    /\ direction_state = [dir \in Directions |-> direction_state_t(0)]
    /\ m_last_read_at = 0
    /\ async_ops = << >>
    /\ stream = [dir \in Directions |->
                    [read |-> << >>, handed |-> << >>, delivered |-> << >>]]
    /\ logged = << >>
    /\ thrown = "none"

(***************************************************************************)
(* a_dns_resolver_t                                                        *)
(***************************************************************************)
\* The constructor: empty cache, empty waiting list, zeroed statistics.
a_dns_resolver_t ==
    /\ pc = "constructed"
    /\ now = 0
    /\ m_cache = EmptyMap
    /\ m_waiting_forward_requests = EmptyMap
    /\ resolving = [n \in Names |-> 0]
    /\ m_dns_stats = [ m_dns_cache_hits         |-> 0,
                       m_dns_successful_lookups |-> 0,
                       m_dns_failed_lookups     |-> 0 ]
    /\ m_cache_cleanup_period \in CleanupPeriods
    /\ delayed_clear_cache = << >>
    /\ delivered = 0
    /\ sent = << >>
    /\ last_cache_op = [op |-> "none"]

\* The agent is constructed; no connection is followed.
Init ==
    /\ a_dns_resolver_t
    /\ NoConnection

\* so_evt_start
so_evt_start ==
    /\ pc = "constructed"
    /\ pc' = "started"
    /\ delayed_clear_cache' =
           Append(delayed_clear_cache, now + m_cache_cleanup_period)
    /\ UNCHANGED << now, m_cache, m_waiting_forward_requests, resolving,
                    m_dns_stats, m_cache_cleanup_period, delivered, sent,
                    last_cache_op >>
    /\ UNCHANGED connection_vars

\* add_to_waiting_and_resolve that ignores need_resolve and starts
\* async_resolve for every request.
add_to_waiting_and_resolve_always(req) ==
    LET added == add_request(m_waiting_forward_requests, req.m_name, req)
    IN  /\ m_waiting_forward_requests' = added.m_waiting
        /\ resolving' = [resolving EXCEPT ![req.m_name] = @ + 1]

\* add_to_waiting_and_resolve that keeps a request only when it starts
\* async_resolve for it; a request for a name being resolved is forgotten.
add_to_waiting_and_resolve_first_only(req) ==
    LET added == add_request(m_waiting_forward_requests, req.m_name, req)
    IN  IF added.need_resolve
        THEN /\ m_waiting_forward_requests' = added.m_waiting
             /\ resolving' = [resolving EXCEPT ![req.m_name] = @ + 1]
        ELSE UNCHANGED << m_waiting_forward_requests, resolving >>

\* add_to_waiting_and_resolve: async_resolve is started only for the first
\* waiter of the name.
add_to_waiting_and_resolve(req) ==
    LET added == add_request(m_waiting_forward_requests, req.m_name, req)
    IN  /\ m_waiting_forward_requests' = added.m_waiting
        /\ resolving' =
               IF added.need_resolve
               THEN [resolving EXCEPT ![req.m_name] = @ + 1]
               ELSE resolving

\* on_resolve that counts a cache hit and sends no reply for it.
on_resolve_silent_hit(msg) ==
    LET resolved == resolve(m_cache, msg.m_name, msg.m_ip_version)
    IN  IF resolved.has_value
        THEN /\ m_dns_stats' =
                    [m_dns_stats EXCEPT !.m_dns_cache_hits = @ + 1]
             /\ UNCHANGED << m_waiting_forward_requests, resolving, sent >>
        ELSE /\ add_to_waiting_and_resolve(msg)
             /\ UNCHANGED << m_dns_stats, sent >>

\* on_resolve that, after answering from the cache, goes on to
\* add_to_waiting_and_resolve (the else is lost).
on_resolve_hit_falls_through(msg) ==
    LET resolved == resolve(m_cache, msg.m_name, msg.m_ip_version)
    IN  IF resolved.has_value
        THEN /\ m_dns_stats' =
                    [m_dns_stats EXCEPT !.m_dns_cache_hits = @ + 1]
             /\ sent' =
                    Append(sent,
                           resolve_reply_t(
                               msg.m_reply_to, msg.m_req_id,
                               msg.m_completion_token,
                               successful_resolve_t(resolved.value)))
             /\ add_to_waiting_and_resolve(msg)
        ELSE /\ add_to_waiting_and_resolve(msg)
             /\ UNCHANGED << m_dns_stats, sent >>

\* on_resolve
on_resolve(msg) ==
    LET resolved == resolve(m_cache, msg.m_name, msg.m_ip_version)
    IN  IF resolved.has_value
        THEN /\ m_dns_stats' =
                    [m_dns_stats EXCEPT !.m_dns_cache_hits = @ + 1]
             /\ sent' =
                    Append(sent,
                           resolve_reply_t(
                               msg.m_reply_to, msg.m_req_id,
                               msg.m_completion_token,
                               successful_resolve_t(resolved.value)))
             /\ UNCHANGED << m_waiting_forward_requests, resolving >>
        ELSE /\ add_to_waiting_and_resolve(msg)
             /\ UNCHANGED << m_dns_stats, sent >>

\* on_clear_cache that lets an entry live one cleanup period past its time
\* to live.
on_clear_cache_one_period_late ==
    LET cleaned ==
            remove_outdated_records(
                m_cache, resolve_info_time_to_live + m_cache_cleanup_period, now)
    IN  /\ m_cache' = cleaned.m_data
        /\ last_cache_op' = [ op        |-> "remove_outdated_records",
                               n_removed |-> cleaned.n_removed ]

\* on_clear_cache
on_clear_cache ==
    LET cleaned ==
            remove_outdated_records(m_cache, resolve_info_time_to_live, now)
    IN  /\ m_cache' = cleaned.m_data
        /\ last_cache_op' = [ op        |-> "remove_outdated_records",
                               n_removed |-> cleaned.n_removed ]

\* A re-arm that sends two delayed clear_cache_t messages.
send_delayed_clear_cache_twice(pending) ==
    Append(Append(pending, now + m_cache_cleanup_period),
           now + m_cache_cleanup_period)

\* The next cleanup: so_5::send_delayed< clear_cache_t >( *this, period )
send_delayed_clear_cache(pending) ==
    Append(pending, now + m_cache_cleanup_period)

\* on_updated_dns_params
on_updated_dns_params(msg) ==
    m_cache_cleanup_period' = msg.m_cache_cleanup_period

\* handle_resolve_result that counts a failed lookup and leaves its waiters
\* in the waiting list.
handle_resolve_result_failure_not_fanned_out(ec, results, name) ==
    IF ec.value = 0
    THEN LET handled ==
                 handle_waiting_requests_results(
                     m_waiting_forward_requests, name, results,
                     endpoint_address_extractor)
         IN  /\ m_dns_stats' =
                    [m_dns_stats EXCEPT !.m_dns_successful_lookups = @ + 1]
             /\ m_cache' = add_records(m_cache, name, results, now)
             /\ last_cache_op' = [op |-> "add_records"]
             /\ m_waiting_forward_requests' = handled.m_waiting
             /\ sent' = sent \o handled.replies
    ELSE /\ m_dns_stats' =
                [m_dns_stats EXCEPT !.m_dns_failed_lookups = @ + 1]
         /\ UNCHANGED << m_waiting_forward_requests, sent, m_cache,
                         last_cache_op >>

\* handle_resolve_result that counts a failed lookup as a successful one.
handle_resolve_result_failure_counted_as_success(ec, results, name) ==
    IF ec.value = 0
    THEN LET handled ==
                 handle_waiting_requests_results(
                     m_waiting_forward_requests, name, results,
                     endpoint_address_extractor)
         IN  /\ m_dns_stats' =
                    [m_dns_stats EXCEPT !.m_dns_successful_lookups = @ + 1]
             /\ m_cache' = add_records(m_cache, name, results, now)
             /\ last_cache_op' = [op |-> "add_records"]
             /\ m_waiting_forward_requests' = handled.m_waiting
             /\ sent' = sent \o handled.replies
    ELSE LET handled ==
                 handle_waiting_requests_result(
                     m_waiting_forward_requests, name,
                     failed_resolve_t(make_error_description(ec)))
         IN  /\ m_dns_stats' =
                    [m_dns_stats EXCEPT !.m_dns_successful_lookups = @ + 1]
             /\ m_waiting_forward_requests' = handled.m_waiting
             /\ sent' = sent \o handled.replies
             /\ UNCHANGED << m_cache, last_cache_op >>

\* handle_resolve_result that answers every waiter of a successful lookup
\* with the first address of the results, whatever its family.
handle_resolve_result_first_address_for_all(ec, results, name) ==
    IF ec.value = 0
    THEN LET handled ==
                 handle_waiting_requests_result(
                     m_waiting_forward_requests, name,
                     successful_resolve_t(
                         endpoint_address_extractor[results[1]]))
         IN  /\ m_dns_stats' =
                    [m_dns_stats EXCEPT !.m_dns_successful_lookups = @ + 1]
             /\ m_cache' = add_records(m_cache, name, results, now)
             /\ last_cache_op' = [op |-> "add_records"]
             /\ m_waiting_forward_requests' = handled.m_waiting
             /\ sent' = sent \o handled.replies
    ELSE LET handled ==
                 handle_waiting_requests_result(
                     m_waiting_forward_requests, name,
                     failed_resolve_t(make_error_description(ec)))
         IN  /\ m_dns_stats' =
                    [m_dns_stats EXCEPT !.m_dns_failed_lookups = @ + 1]
             /\ m_waiting_forward_requests' = handled.m_waiting
             /\ sent' = sent \o handled.replies
             /\ UNCHANGED << m_cache, last_cache_op >>

\* handle_resolve_result
handle_resolve_result(ec, results, name) ==
    IF ec.value = 0
    THEN LET handled ==
                 handle_waiting_requests_results(
                     m_waiting_forward_requests, name, results,
                     endpoint_address_extractor)
         IN  /\ m_dns_stats' =
                    [m_dns_stats EXCEPT !.m_dns_successful_lookups = @ + 1]
             /\ m_cache' = add_records(m_cache, name, results, now)
             /\ last_cache_op' = [op |-> "add_records"]
             /\ m_waiting_forward_requests' = handled.m_waiting
             /\ sent' = sent \o handled.replies
    ELSE LET handled ==
                 handle_waiting_requests_result(
                     m_waiting_forward_requests, name,
                     failed_resolve_t(make_error_description(ec)))
         IN  /\ m_dns_stats' =
                    [m_dns_stats EXCEPT !.m_dns_failed_lookups = @ + 1]
             /\ m_waiting_forward_requests' = handled.m_waiting
             /\ sent' = sent \o handled.replies
             /\ UNCHANGED << m_cache, last_cache_op >>

(***************************************************************************)
(* The events of the agent.                                                *)
(***************************************************************************)
\* A resolve_request_t is delivered to the agent.
ResolveRequest(msg) ==
    /\ pc = "started"
    /\ delivered < MaxRequests
    /\ msg.m_req_id = delivered + 1
    /\ on_resolve(msg)
    /\ delivered' = delivered + 1
    /\ UNCHANGED << pc, now, m_cache, m_cache_cleanup_period,
                    delayed_clear_cache, last_cache_op >>
    /\ UNCHANGED connection_vars

\* A system resolution of the name, in flight, completes successfully: the
\* completion handler given to async_resolve runs handle_resolve_result.
ResolveCompletionWith(name, ec, results) ==
    /\ pc = "started"
    /\ resolving[name] > 0
    /\ resolving' = [resolving EXCEPT ![name] = @ - 1]
    /\ handle_resolve_result(ec, results, name)
    /\ UNCHANGED << pc, now, m_cache_cleanup_period, delayed_clear_cache,
                    delivered >>
    /\ UNCHANGED connection_vars

ResolveCompletionSuccess(name) ==
    \E results \in ResolverResults :
        ResolveCompletionWith(name, no_error, results)

\* A system resolution of the name, in flight, completes with an error.
ResolveCompletionFailure(name) ==
    \E ec \in ErrorCodes :
        ResolveCompletionWith(name, ec, << >>)

ResolveCompletion(name) ==
    ResolveCompletionSuccess(name) \/ ResolveCompletionFailure(name)

\* A delayed clear_cache_t whose deadline has passed is delivered.
ClearCacheTick ==
    /\ pc = "started"
    /\ \E i \in DOMAIN delayed_clear_cache :
           /\ delayed_clear_cache[i] <= now
           /\ on_clear_cache
           /\ delayed_clear_cache' =
                  send_delayed_clear_cache(RemoveAt(delayed_clear_cache, i))
    /\ UNCHANGED << pc, now, m_waiting_forward_requests, resolving,
                    m_dns_stats, m_cache_cleanup_period, delivered, sent >>
    /\ UNCHANGED connection_vars

\* An updated_dns_params_t is delivered.
UpdatedDnsParams ==
    /\ pc = "started"
    /\ \E period \in CleanupPeriods \ {m_cache_cleanup_period} :
           on_updated_dns_params([m_cache_cleanup_period |-> period])
    /\ UNCHANGED << pc, now, m_cache, m_waiting_forward_requests, resolving,
                    m_dns_stats, delayed_clear_cache, delivered, sent,
                    last_cache_op >>
    /\ UNCHANGED connection_vars

\* The steady clock advances.
AdvanceClock ==
    /\ pc = "started"
    /\ now + ClockStep <= MaxTime
    /\ now' = now + ClockStep
    /\ UNCHANGED << pc, m_cache, m_waiting_forward_requests, resolving,
                    m_dns_stats, m_cache_cleanup_period, delayed_clear_cache,
                    delivered, sent, last_cache_op >>
    /\ UNCHANGED connection_vars

Next ==
    \/ so_evt_start
    \/ \E msg \in RequestMessages : ResolveRequest(msg)
    \/ \E name \in Names : ResolveCompletionSuccess(name)
    \/ \E name \in Names : ResolveCompletionFailure(name)
    \/ ClearCacheTick
    \/ UpdatedDnsParams
    \/ AdvanceClock

Spec == Init /\ [][Next]_vars

\* Every system resolution that was started completes at some time.
LiveSpec ==
    Init /\ [][Next]_vars /\ \A name \in Names : WF_vars(ResolveCompletion(name))

\* The steady clock goes on and SObjectizer's timer delivers a delayed
\* message whose deadline has passed.
TickingSpec ==
    Init /\ [][Next]_vars /\ WF_vars(AdvanceClock) /\ WF_vars(ClearCacheTick)

(***************************************************************************)
(* Properties.                                                             *)
(***************************************************************************)
\* The names that are keys of the waiting list.
WaitingNames == DOMAIN m_waiting_forward_requests

\* The replies sent so far to the request with this m_req_id.
RepliesTo(req_id) == { j \in DOMAIN sent : sent[j].m_req_id = req_id }

\* C1: for every hostname at most one system resolution (async_resolve) is
\* outstanding, in every reachable state.
C1_AtMostOneResolutionPerName ==
    \A name \in Names : resolving[name] <= 1

\* Two requests of different ip_version are coalesced on one resolution.
C1_Witness ==
    \E name \in WaitingNames :
        /\ resolving[name] = 1
        /\ Len(m_waiting_forward_requests[name]) >= 2
        /\ m_waiting_forward_requests[name][1].m_ip_version
               # m_waiting_forward_requests[name][2].m_ip_version

\* C2: every resolve_request_t delivered to the agent gets exactly one
\* resolve_reply_t: never more than one is sent, every reply goes to the
\* mbox of its request and carries the m_req_id and the m_completion_token
\* of that request, and, every started resolution completing, one reply is
\* sent at last.
C2_ExactlyOneReply ==
    /\ [](\A j \in DOMAIN sent :
             /\ sent[j].m_req_id \in 1..delivered
             /\ Cardinality(RepliesTo(sent[j].m_req_id)) = 1
             /\ sent[j].mbox = Requester(sent[j].m_req_id).m_reply_to
             /\ sent[j].m_completion_token =
                    Requester(sent[j].m_req_id).m_completion_token)
    /\ \A req_id \in 1..MaxRequests :
           (delivered >= req_id) ~> (Cardinality(RepliesTo(req_id)) = 1)

\* Every request was answered, one of them because no address of a
\* successful result was of its ip_version.
C2_Witness ==
    /\ delivered = MaxRequests
    /\ \A req_id \in 1..delivered : Cardinality(RepliesTo(req_id)) = 1
    /\ \E j \in DOMAIN sent :
           sent[j].m_result = failed_resolve_t("no matching address family")

\* C3: a hostname is a key of the waiting list, with a non-empty sequence of
\* requests, exactly when a system resolution of it is in flight; after a
\* completion for a name the name has no waiters.
C3_WaitingIffResolving ==
    /\ [](\A name \in Names :
             /\ name \in WaitingNames <=> resolving[name] > 0
             /\ name \in WaitingNames =>
                    Len(m_waiting_forward_requests[name]) > 0)
    /\ [][\A name \in Names :
             ResolveCompletion(name) =>
                 name \notin DOMAIN m_waiting_forward_requests']_vars

\* One name has waiters and a resolution in flight, the other one has been
\* resolved and answered and has neither.
C3_Witness ==
    \E name, other \in Names :
        /\ name \in WaitingNames
        /\ resolving[name] = 1
        /\ other \notin WaitingNames
        /\ resolving[other] = 0
        /\ other \in DOMAIN m_cache
        /\ sent # << >>

\* The replies sent by the step, in the order of sending.
SentByStep == SubSeq(sent', Len(sent) + 1, Len(sent'))

\* The request is answered from the cache: an address of its ip_version is
\* cached for its name.
CacheHit(msg) ==
    /\ msg.m_name \in DOMAIN m_cache
    /\ \E i \in DOMAIN m_cache[msg.m_name].m_addresses :
           m_cache[msg.m_name].m_addresses[i].family = msg.m_ip_version

\* The addresses of a list that are of the family and have no address of the
\* family before them: the first one of the family, if there is one.
FirstOfFamily(addresses, family) ==
    { addresses[i] : i \in { k \in DOMAIN addresses :
          /\ addresses[k].family = family
          /\ \A j \in 1..(k - 1) : addresses[j].family # family } }

\* The addresses of a result list.
AddressesOf(results) == [i \in DOMAIN results |-> results[i].address]

\* C4: a request for a name that misses the cache while a resolution of the
\* name is outstanding is put at the end of the waiting list of the name and
\* neither answered nor resolved for itself; a completion for a name sends
\* exactly one reply to every waiter of the name, in the order of the waiting
\* list, which is the order of arrival.
C4_FanOutInArrivalOrder ==
    /\ [][\A msg \in RequestMessages :
             (/\ ResolveRequest(msg)
              /\ ~CacheHit(msg)
              /\ resolving[msg.m_name] > 0)
             => /\ m_waiting_forward_requests'[msg.m_name] =
                       Append(m_waiting_forward_requests[msg.m_name], msg)
                /\ UNCHANGED << resolving, sent >>]_vars
    /\ [][\A name \in Names :
             ResolveCompletion(name)
             => /\ Len(SentByStep) = Len(m_waiting_forward_requests[name])
                /\ \A i \in DOMAIN SentByStep :
                       /\ SentByStep[i].m_req_id =
                              m_waiting_forward_requests[name][i].m_req_id
                       /\ SentByStep[i].mbox =
                              m_waiting_forward_requests[name][i].m_reply_to
                /\ \A i, j \in DOMAIN SentByStep :
                       i < j => SentByStep[i].m_req_id < SentByStep[j].m_req_id]_vars

\* One completion has answered two waiters, the earlier request first.
C4_Witness ==
    /\ Len(sent) >= 2
    /\ sent[1].m_req_id < sent[2].m_req_id
    /\ m_dns_stats.m_dns_cache_hits = 0
    /\ m_dns_stats.m_dns_successful_lookups + m_dns_stats.m_dns_failed_lookups = 1

\* C5: on a cache hit on_resolve sends Success with the first cached address
\* of the requested ip_version, adds 1 to m_dns_cache_hits and changes
\* neither the cache, nor the waiting list, nor the resolutions in flight,
\* nor the two other counters.
C5_CacheHitFrame ==
    [][\A msg \in RequestMessages :
          (ResolveRequest(msg) /\ CacheHit(msg))
          => /\ Len(SentByStep) = 1
             /\ SentByStep[1].mbox = msg.m_reply_to
             /\ SentByStep[1].m_req_id = msg.m_req_id
             /\ SentByStep[1].m_completion_token = msg.m_completion_token
             /\ SentByStep[1].m_result.kind = "successful_resolve_t"
             /\ FirstOfFamily(m_cache[msg.m_name].m_addresses, msg.m_ip_version)
                    = { SentByStep[1].m_result.m_address }
             /\ m_dns_stats' =
                    [m_dns_stats EXCEPT !.m_dns_cache_hits = @ + 1]
             /\ UNCHANGED << m_cache, m_waiting_forward_requests, resolving >>]_vars

\* A request has been answered from the entry a successful lookup cached.
C5_Witness ==
    /\ m_dns_stats.m_dns_cache_hits = 1
    /\ m_dns_stats.m_dns_successful_lookups = 1
    /\ Len(sent) = 2
    /\ sent[2].m_result.kind = "successful_resolve_t"

\* C6: when a resolution of a name completes with an error,
\* m_dns_failed_lookups grows by 1 and the other counters stay, every waiter
\* of the name gets a failed_resolve_t with one and the same description, the
\* cache stays, and the name is left with no waiters and no resolution, so
\* that the agent, still started, handles the next miss for the name as a
\* fresh one: the request is the only waiter of a new resolution.
C6_FailureFanOut ==
    /\ [][\A name \in Names :
             ResolveCompletionFailure(name)
             => /\ m_dns_stats' =
                       [m_dns_stats EXCEPT !.m_dns_failed_lookups = @ + 1]
                /\ Len(SentByStep) = Len(m_waiting_forward_requests[name])
                /\ \A i \in DOMAIN SentByStep :
                       /\ SentByStep[i].m_req_id =
                              m_waiting_forward_requests[name][i].m_req_id
                       /\ SentByStep[i].m_result.kind = "failed_resolve_t"
                       /\ SentByStep[i].m_result = SentByStep[1].m_result
                /\ m_cache' = m_cache
                /\ name \notin DOMAIN m_waiting_forward_requests'
                /\ resolving'[name] = 0
                /\ pc' = "started"]_vars
    /\ [][\A msg \in RequestMessages :
             (/\ ResolveRequest(msg)
              /\ ~CacheHit(msg)
              /\ m_dns_stats.m_dns_failed_lookups > 0
              /\ msg.m_name \notin WaitingNames)
             => /\ m_waiting_forward_requests'[msg.m_name] = << msg >>
                /\ resolving'[msg.m_name] = 1]_vars

\* A failed lookup has answered two waiters with a failure.
C6_Witness ==
    /\ m_dns_stats.m_dns_failed_lookups = 1
    /\ m_dns_stats.m_dns_successful_lookups = 0
    /\ Len(sent) = 2
    /\ sent[1].m_result.kind = "failed_resolve_t"
    /\ sent[1].m_result = sent[2].m_result

\* C7: when a resolution of a name completes successfully with results R,
\* m_dns_successful_lookups grows by 1 and the other counters stay, and every
\* waiter of the name gets Success with the first address of R of its own
\* ip_version, the address resolve selects from a cache that holds R for the
\* name, or a failure when R has no address of its ip_version.
C7_SuccessFanOut ==
    [][\A name \in Names : \A results \in ResolverResults :
          ResolveCompletionWith(name, no_error, results)
          => /\ m_dns_stats' =
                    [m_dns_stats EXCEPT !.m_dns_successful_lookups = @ + 1]
             /\ Len(SentByStep) = Len(m_waiting_forward_requests[name])
             /\ \A i \in DOMAIN SentByStep :
                    LET req == m_waiting_forward_requests[name][i]
                        first == FirstOfFamily(AddressesOf(results),
                                               req.m_ip_version)
                        selected ==
                            resolve(add_records(EmptyMap, name, results, now),
                                    name, req.m_ip_version)
                    IN  /\ SentByStep[i].m_req_id = req.m_req_id
                        /\ first = {}
                               => /\ SentByStep[i].m_result.kind = "failed_resolve_t"
                                  /\ ~selected.has_value
                        /\ first # {}
                               => /\ SentByStep[i].m_result.kind =
                                         "successful_resolve_t"
                                  /\ first = { SentByStep[i].m_result.m_address }
                                  /\ selected = Some(SentByStep[i].m_result.m_address)]_vars

\* A successful lookup has answered an ip_v4 waiter with the second address
\* of its results, the first one being an ip_v6 address.
C7_Witness ==
    /\ m_dns_stats.m_dns_successful_lookups = 1
    /\ m_dns_stats.m_dns_cache_hits = 0
    /\ \E name \in DOMAIN m_cache :
           /\ Len(m_cache[name].m_addresses) = 2
           /\ m_cache[name].m_addresses[1].family = "ip_v6"
           /\ \E j \in DOMAIN sent :
                  /\ sent[j].m_result.kind = "successful_resolve_t"
                  /\ sent[j].m_result.m_address = m_cache[name].m_addresses[2]

\* C8: when add_records runs for a name that is cached already, the entry
\* is afterwards either the earlier one (its addresses and its creation time)
\* or the one of the new results (their addresses, created now), never a
\* mixture of the two.
C8_DuplicateInsertionKeepsOneResult ==
    [][\A name \in Names : \A results \in ResolverResults :
          (ResolveCompletionWith(name, no_error, results) /\ name \in DOMAIN m_cache)
          => \/ m_cache'[name] = m_cache[name]
             \/ m_cache'[name] = [ m_addresses     |-> AddressesOf(results),
                                   m_creation_time |-> now ]]_vars

\* C9: add_records(n, R) followed at once by resolve(n, v) yields the first
\* address of R of family v, and nullopt when R has none, whatever the cache
\* held before.
C9_AddThenResolve ==
    [][\A name \in Names : \A results \in ResolverResults :
          ResolveCompletionWith(name, no_error, results)
          => \A v \in ip_version_t :
                 LET first == FirstOfFamily(AddressesOf(results), v)
                     resolved == resolve(m_cache', name, v)
                 IN  /\ resolved.has_value <=> first # {}
                     /\ resolved.has_value => first = { resolved.value }]_vars

\* The cache entries that are outdated at the clock reading.
Outdated(cache, clock) ==
    { n \in DOMAIN cache :
          clock - cache[n].m_creation_time >= resolve_info_time_to_live }

\* C10 as stated: remove_outdated_records removes exactly the entries with
\* now - created_at >= ttl and returns their number, and a call that follows
\* another one with no add_records in between returns 0.
C10_SecondCallReturnsZero ==
    [][ClearCacheTick
       => /\ m_cache' = [n \in (DOMAIN m_cache) \ Outdated(m_cache, now) |-> m_cache[n]]
          /\ last_cache_op'.n_removed = Cardinality(Outdated(m_cache, now))
          /\ last_cache_op.op = "remove_outdated_records"
                 => last_cache_op'.n_removed = 0]_vars

\* C10, amended: remove_outdated_records removes exactly the entries with
\* now - created_at >= ttl and returns their number; a second call at the
\* same clock reading returns 0 and removes nothing; a call that follows
\* another one with no add_records in between returns the number of entries
\* that have reached the age ttl since, which need not be 0.
C10_RemovesExactlyOutdated ==
    [][ClearCacheTick
       => /\ m_cache' = [n \in (DOMAIN m_cache) \ Outdated(m_cache, now) |-> m_cache[n]]
          /\ last_cache_op'.n_removed = Cardinality(Outdated(m_cache, now))
          /\ remove_outdated_records(m_cache', resolve_info_time_to_live, now)
                 = [m_data |-> m_cache', n_removed |-> 0]]_vars

\* A cleanup has removed the one outdated entry and kept the other one.
C10_Witness ==
    /\ last_cache_op = [op |-> "remove_outdated_records", n_removed |-> 1]
    /\ Cardinality(DOMAIN m_cache) = 1

\* C11: right after every ClearCacheTick the cache holds no entry with
\* now - created_at >= 30 s, whether or not the entry received a duplicate
\* insertion: every entry that had reached that age when the tick was
\* processed is gone from the cache, so that no later cache hit is answered
\* from it.
C11_NoOutdatedEntryAfterCleanup ==
    [][ClearCacheTick
       => /\ Outdated(m_cache', now') = {}
          /\ \A name \in Outdated(m_cache, now) :
                 /\ name \notin DOMAIN m_cache'
                 /\ \A v \in ip_version_t :
                        ~ resolve(m_cache', name, v).has_value]_vars

\* A cleanup has removed the only entry of the cache, an entry that two
\* successful resolutions had been added to (a duplicate insertion).
C11_Witness ==
    /\ last_cache_op = [op |-> "remove_outdated_records", n_removed |-> 1]
    /\ m_cache = EmptyMap
    /\ m_dns_stats.m_dns_successful_lookups = 2

(***************************************************************************)
(* connection_handler_t: what the handlers rely on.                        *)
(*                                                                         *)
(* A callback changes the connection in several steps, so the steps are    *)
(* operators from the state of the connection (a record of the variables)  *)
(* to the state after the step, and an action sets the variables from the  *)
(* state its callback ends in.                                             *)
(***************************************************************************)
\* The state of the connection when a callback starts.
Connection ==
    [ slot              |-> slot,
      handlers          |-> handlers,
      sockets           |-> sockets,
      m_traffic_limiter |-> m_traffic_limiter,
      m_created_at      |-> m_created_at,
      m_io_chunk_size   |-> m_io_chunk_size,
      direction_state   |-> direction_state,
      m_last_read_at    |-> m_last_read_at,
      async_ops         |-> async_ops,
      stream            |-> stream,
      logged            |-> << >>,
      thrown            |-> thrown ]

\* The state of the connection when the callback has returned.
Becomes(c) ==
    /\ slot' = c.slot
    /\ handlers' = c.handlers
    /\ sockets' = c.sockets
    /\ m_traffic_limiter' = c.m_traffic_limiter
    /\ m_created_at' = c.m_created_at
    /\ m_io_chunk_size' = c.m_io_chunk_size
    /\ direction_state' = c.direction_state
    /\ m_last_read_at' = c.m_last_read_at
    /\ async_ops' = c.async_ops
    /\ stream' = c.stream
    /\ logged' = c.logged
    /\ thrown' = c.thrown

\* log_message_for_connection
log_message_for_connection(c, level, message) ==
    [c EXCEPT !.logged = Append(@, [level |-> level, message |-> message])]

\* socket.shutdown( shutdown_both, ec ); socket.close( ec ) on a socket of
\* the handler; a socket that was moved to another handler is not touched.
shutdown_and_close(c, h, channel) ==
    IF c.sockets[channel].owner = h
    THEN [c EXCEPT !.sockets[channel].is_open = FALSE,
                   !.sockets[channel].n_close = @ + 1]
    ELSE c

\* connection_handler_t::release: closes m_connection.
connection_handler_release(c, h) == shutdown_and_close(c, h, "m_connection")

\* data_transfer_handler_t::release: closes m_out_connection and lets the
\* base class do the rest.
data_transfer_release(c, h) ==
    connection_handler_release(shutdown_and_close(c, h, "m_out_connection"), h)

\* release() of the handler: data_transfer_handler_t overrides it, and
\* handler_with_out_connection_t (the base of the CONNECT handler) closes
\* its outgoing connection in the same way.
release(c, h) == data_transfer_release(c, h)

\* remove_handler: the sockets of the handler are closed, the slot entry is
\* removed and the handler is destroyed.
remove_handler(c, h, reason) ==
    LET released == release(c, h)
    IN  [released EXCEPT
            !.slot = IF @ = h THEN 0 ELSE @,
            !.handlers[h].terminal =
                Append(@, [event |-> "removed", reason |-> reason])]

\* log_and_remove_connection
log_and_remove_connection(c, h, reason, level, message) ==
    remove_handler(log_message_for_connection(c, level, message), h, reason)

\* log_and_remove_connection_on_io_error: an I/O error ends the handler
\* with io_error.
log_and_remove_connection_on_io_error(c, h, ec, operation_description) ==
    log_and_remove_connection(c, h, "io_error", "debug", operation_description)

\* traffic_limiter_t::reserve_read_portion: the limiter grants a capacity of
\* 0..desired bytes; the grant is an input of the callback.
Grants(desired) == [Directions -> 0..desired]

reserve_read_portion(c, direction, capacity) ==
    [c EXCEPT !.m_traffic_limiter.reservations =
                  Append(@, [ direction  |-> direction,
                              m_capacity |-> capacity,
                              n_released |-> 0 ])]

\* reserved_capacity_t::release
reserved_capacity_release(c, reserved_capacity) ==
    [c EXCEPT !.m_traffic_limiter.reservations[reserved_capacity].n_released = @ + 1]

(***************************************************************************)
(* data_transfer_handler_t                                                 *)
(***************************************************************************)
\* ensure_traffic_limiter_not_null: the exception it throws, "none" when
\* it returns the limiter.
ensure_traffic_limiter_not_null(value) ==
    IF value.is_null THEN "acl_handler_ex_t" ELSE "none"

\* The constructor: the sockets and the limiter are moved in, the chunk size
\* is read from the configuration, both directions get their buffers and
\* m_last_read_at is the clock reading.  When the limiter is null the
\* constructor throws and the sockets moved in are destroyed with it.
data_transfer_handler_t(c) ==
    IF ensure_traffic_limiter_not_null(c.m_traffic_limiter) # "none"
    THEN [c EXCEPT
             !.thrown = ensure_traffic_limiter_not_null(c.m_traffic_limiter),
             !.sockets = [ch \in Channels |-> [@[ch] EXCEPT !.is_open = FALSE]]]
    ELSE [c EXCEPT
             !.handlers = Append(@, [ name       |-> "data-transfer-handler",
                                      n_on_start |-> 0,
                                      terminal   |-> << >> ]),
             !.sockets = [ch \in Channels |->
                             [@[ch] EXCEPT !.owner = Len(c.handlers) + 1]],
             !.m_traffic_limiter.owner = Len(c.handlers) + 1,
             !.m_io_chunk_size = config.io_chunk_size,
             !.direction_state =
                 [dir \in Directions |-> direction_state_t(config.io_chunk_size)],
             !.m_last_read_at = steady_now,
             !.thrown = "none"]

\* make_data_transfer_handler
make_data_transfer_handler(c) == data_transfer_handler_t(c)

\* initiate_async_read_for_direction that sets the flag and reads all the
\* same when nothing was reserved.
initiate_async_read_for_direction_reads_anyway(c, h, src_dir, dest_dir, capacity) ==
    LET reserved ==
            reserve_read_portion(c, traffic_direction(src_dir), capacity)
        reserved_capacity == Len(reserved.m_traffic_limiter.reservations)
        flagged ==
            [reserved EXCEPT
                !.direction_state[src_dir].m_is_traffic_limit_exceeded =
                    (0 = capacity)]
    IN  [flagged EXCEPT
            !.async_ops =
                Append(@, [ op                |-> "async_read_some",
                            handler           |-> h,
                            src_dir           |-> src_dir,
                            dest_dir          |-> dest_dir,
                            size              |-> capacity,
                            reserved_capacity |-> reserved_capacity ])]

\* initiate_async_read_for_direction; capacity is what reserve_read_portion
\* grants for this call.
initiate_async_read_for_direction(c, h, src_dir, dest_dir, capacity) ==
    LET reserved ==
            reserve_read_portion(c, traffic_direction(src_dir), capacity)
        reserved_capacity == Len(reserved.m_traffic_limiter.reservations)
        flagged ==
            [reserved EXCEPT
                !.direction_state[src_dir].m_is_traffic_limit_exceeded =
                    (0 = capacity)]
    IN  IF flagged.direction_state[src_dir].m_is_traffic_limit_exceeded
        THEN flagged
        ELSE [flagged EXCEPT
                 !.async_ops =
                     Append(@, [ op                |-> "async_read_some",
                                 handler           |-> h,
                                 src_dir           |-> src_dir,
                                 dest_dir          |-> dest_dir,
                                 size              |-> capacity,
                                 reserved_capacity |-> reserved_capacity ])]

\* initiate_read_user_end
initiate_read_user_end(c, h, capacity) ==
    initiate_async_read_for_direction(c, h, "user-end", "target-end", capacity)

\* initiate_read_target_end
initiate_read_target_end(c, h, capacity) ==
    initiate_async_read_for_direction(c, h, "target-end", "user-end", capacity)

\* initiate_async_write_for_direction that writes the whole buffer,
\* m_io_chunk_size bytes, whatever the last read has put into it.
initiate_async_write_for_direction_whole_buffer(c, h, dest_dir, src_dir) ==
    [c EXCEPT
        !.async_ops =
            Append(@, [ op                |-> "async_write",
                        handler           |-> h,
                        src_dir           |-> src_dir,
                        dest_dir          |-> dest_dir,
                        size              |-> c.m_io_chunk_size,
                        reserved_capacity |-> 0 ]),
        !.stream[src_dir].handed =
            @ \o c.direction_state[src_dir].m_data_read]

\* initiate_async_write_for_direction: everything in the buffer of src_dir,
\* m_data_size bytes, is handed to asio::async_write on the channel of
\* dest_dir.
initiate_async_write_for_direction(c, h, dest_dir, src_dir) ==
    [c EXCEPT
        !.async_ops =
            Append(@, [ op                |-> "async_write",
                        handler           |-> h,
                        src_dir           |-> src_dir,
                        dest_dir          |-> dest_dir,
                        size              |-> c.direction_state[src_dir].m_data_size,
                        reserved_capacity |-> 0 ]),
        !.stream[src_dir].handed =
            @ \o SubSeq(c.direction_state[src_dir].m_data_read, 1,
                        c.direction_state[src_dir].m_data_size)]

\* The choice of the reason without the test for operation_aborted: a
\* cancelled read is taken for an I/O error while the channel is open.
remove_reason_of_read_aborted_as_error(ec, channel_is_open) ==
    IF ec # success
    THEN IF ec = "eof"
         THEN Some("normal_completion")
         ELSE IF channel_is_open
              THEN Some("io_error")
              ELSE Some("current_operation_canceled")
    ELSE nullopt

\* on_read_result, lines 352-402: the reason to remove the handler for, if
\* there is one.
remove_reason_of_read(ec, channel_is_open) ==
    IF ec # success
    THEN IF ec = "eof"
         THEN Some("normal_completion")
         ELSE IF ec = "operation_aborted"
              THEN Some("current_operation_canceled")
              ELSE IF channel_is_open
                   THEN Some("io_error")
                   ELSE Some("current_operation_canceled")
    ELSE nullopt

\* on_read_result that keeps the handler while the other direction is
\* alive: the handler is removed when the second direction fails.
on_read_result_waits_for_both(c, h, src_dir, dest_dir, ec, bytes_transferred) ==
    LET remove_reason ==
            remove_reason_of_read(ec, c.sockets[Channel(src_dir)].is_open)
        marked ==
            IF ec # success
            THEN [c EXCEPT !.direction_state[src_dir].m_is_alive = FALSE]
            ELSE c
    IN  IF remove_reason.has_value
        THEN IF marked.direction_state[dest_dir].m_is_alive
             THEN marked
             ELSE remove_handler(marked, h, remove_reason.value)
        ELSE initiate_async_write_for_direction(
                 [marked EXCEPT
                     !.direction_state[src_dir].m_data_size = bytes_transferred,
                     !.m_last_read_at = steady_now],
                 h, dest_dir, src_dir)

\* on_read_result
on_read_result(c, h, src_dir, dest_dir, ec, bytes_transferred) ==
    LET remove_reason ==
            remove_reason_of_read(ec, c.sockets[Channel(src_dir)].is_open)
        marked ==
            IF ec # success
            THEN [c EXCEPT !.direction_state[src_dir].m_is_alive = FALSE]
            ELSE c
        noted ==
            IF remove_reason = Some("io_error")
            THEN log_message_for_connection(
                     marked, "debug", "error reading data from " \o src_dir)
            ELSE marked
    IN  IF remove_reason.has_value
        THEN remove_handler(noted, h, remove_reason.value)
        ELSE initiate_async_write_for_direction(
                 [marked EXCEPT
                     !.direction_state[src_dir].m_data_size = bytes_transferred,
                     !.m_last_read_at = steady_now],
                 h, dest_dir, src_dir)

\* The completion handler of async_read_some: the reservation is released
\* and on_read_result is called.
read_completion_handler(c, h, src_dir, dest_dir, reserved_capacity, ec, bytes) ==
    on_read_result(
        reserved_capacity_release(c, reserved_capacity),
        h, src_dir, dest_dir, ec, bytes)

\* on_write_result that initiates the next read on the direction that was
\* written to.
on_write_result_reads_opposite(c, h, dest_dir, src_dir, ec, bytes_transferred, capacity) ==
    IF ec # success
    THEN log_and_remove_connection_on_io_error(
             c, h, ec, "writting to " \o dest_dir)
    ELSE IF c.direction_state[src_dir].m_data_size # bytes_transferred
         THEN log_and_remove_connection(
                  c, h, "io_error", "critical", "unexpected write result")
         ELSE initiate_async_read_for_direction(c, h, dest_dir, src_dir, capacity)

\* on_write_result; capacity is what reserve_read_portion grants if the
\* next read is initiated.
on_write_result(c, h, dest_dir, src_dir, ec, bytes_transferred, capacity) ==
    IF ec # success
    THEN log_and_remove_connection_on_io_error(
             c, h, ec, "writting to " \o dest_dir)
    ELSE IF c.direction_state[src_dir].m_data_size # bytes_transferred
         THEN log_and_remove_connection(
                  c, h, "io_error", "critical", "unexpected write result")
         ELSE initiate_async_read_for_direction(c, h, src_dir, dest_dir, capacity)

\* on_start_impl that initiates the read of user-end only.
data_transfer_on_start_impl_user_end_only(c, h, granted) ==
    initiate_read_user_end(c, h, granted["user-end"])

\* data_transfer_handler_t::on_start_impl; granted is what
\* reserve_read_portion grants for each direction.
data_transfer_on_start_impl(c, h, granted) ==
    initiate_read_target_end(
        initiate_read_user_end(c, h, granted["user-end"]),
        h, granted["target-end"])

\* on_timer_impl that initiates a read of user-end on every tick, whether
\* or not the direction had exceeded its limit.
data_transfer_on_timer_impl_reads_always(c, h, granted) ==
    IF /\ ~ c.direction_state["user-end"].m_is_alive
       /\ ~ c.direction_state["target-end"].m_is_alive
    THEN log_and_remove_connection(
             c, h, "unexpected_and_unsupported_case", "warn",
             "both connections are closed")
    ELSE IF c.m_last_read_at + config.idle_connection_timeout < steady_now
         THEN log_and_remove_connection(
                  c, h, "no_activity_for_too_long", "warn",
                  "no data read for long time")
         ELSE LET user_end_done ==
                      initiate_read_user_end(c, h, granted["user-end"])
              IN  IF user_end_done.direction_state["target-end"].m_is_traffic_limit_exceeded
                  THEN initiate_read_target_end(
                           user_end_done, h, granted["target-end"])
                  ELSE user_end_done

\* on_timer_impl that does not return after the removal for inactivity and
\* goes on to the directions that had exceeded their limit.
data_transfer_on_timer_impl_goes_on(c, h, granted) ==
    IF /\ ~ c.direction_state["user-end"].m_is_alive
       /\ ~ c.direction_state["target-end"].m_is_alive
    THEN log_and_remove_connection(
             c, h, "unexpected_and_unsupported_case", "warn",
             "both connections are closed")
    ELSE LET checked ==
                 IF c.m_last_read_at + config.idle_connection_timeout < steady_now
                 THEN log_and_remove_connection(
                          c, h, "no_activity_for_too_long", "warn",
                          "no data read for long time")
                 ELSE c
             user_end_done ==
                 IF checked.direction_state["user-end"].m_is_traffic_limit_exceeded
                 THEN initiate_read_user_end(checked, h, granted["user-end"])
                 ELSE checked
         IN  IF user_end_done.direction_state["target-end"].m_is_traffic_limit_exceeded
             THEN initiate_read_target_end(
                      user_end_done, h, granted["target-end"])
             ELSE user_end_done

\* data_transfer_handler_t::on_timer_impl
data_transfer_on_timer_impl(c, h, granted) ==
    IF /\ ~ c.direction_state["user-end"].m_is_alive
       /\ ~ c.direction_state["target-end"].m_is_alive
    THEN log_and_remove_connection(
             c, h, "unexpected_and_unsupported_case", "warn",
             "both connections are closed")
    ELSE IF c.m_last_read_at + config.idle_connection_timeout < steady_now
         THEN log_and_remove_connection(
                  c, h, "no_activity_for_too_long", "warn",
                  "no data read for long time")
         ELSE LET user_end_done ==
                      IF c.direction_state["user-end"].m_is_traffic_limit_exceeded
                      THEN initiate_read_user_end(c, h, granted["user-end"])
                      ELSE c
              IN  IF user_end_done.direction_state["target-end"].m_is_traffic_limit_exceeded
                  THEN initiate_read_target_end(
                           user_end_done, h, granted["target-end"])
                  ELSE user_end_done

(***************************************************************************)
(* connect_method_handler_t                                                *)
(***************************************************************************)
\* The constructor: the sockets and the limiter are moved in and
\* m_created_at is the clock reading.
connect_method_handler_t(c) ==
    [c EXCEPT
        !.handlers = Append(@, [ name       |-> "http-connect-method-handler",
                                 n_on_start |-> 0,
                                 terminal   |-> << >> ]),
        !.sockets = [ch \in Channels |->
                        [@[ch] EXCEPT !.owner = Len(c.handlers) + 1]],
        !.m_traffic_limiter.owner = Len(c.handlers) + 1,
        !.m_created_at = steady_now]

\* write_whole: one asynchronous write of the whole buffer to the socket.
write_whole(c, h, connection, buffer) ==
    [c EXCEPT
        !.async_ops =
            Append(@, [ op                |-> "write_whole",
                        handler           |-> h,
                        src_dir           |-> buffer,
                        dest_dir          |-> connection,
                        size              |-> 1,
                        reserved_capacity |-> 0 ])]

\* connect_method_handler_t::on_start_impl
connect_method_on_start_impl(c, h) ==
    write_whole(
        log_message_for_connection(c, "info", "serving-request=CONNECT"),
        h, "m_connection", "m_positive_response")

\* connect_method_handler_t::on_timer_impl
connect_method_on_timer_impl(c, h) ==
    IF c.m_created_at + config.idle_connection_timeout < steady_now
    THEN log_and_remove_connection(
             c, h, "no_activity_for_too_long", "warn",
             "timeout writing positive response to CONNECT method")
    ELSE c

(***************************************************************************)
(* The slot of the connection.                                             *)
(***************************************************************************)
\* connection_handler_t::on_start: called once, as soon as the handler is
\* installed in the slot.
on_start(c, h, granted) ==
    LET counted == [c EXCEPT !.handlers[h].n_on_start = @ + 1]
    IN  IF c.handlers[h].name = "data-transfer-handler"
        THEN data_transfer_on_start_impl(counted, h, granted)
        ELSE connect_method_on_start_impl(counted, h)

\* A handler that was made is installed in the slot and started.
install(c, granted) ==
    on_start([c EXCEPT !.slot = Len(c.handlers)], Len(c.handlers), granted)

\* replace_handler with the factory of connect_method_handler_t: the
\* successor is made from what the handler holds, installed and started, and
\* the handler is destroyed; an exception of the factory is caught by
\* wrap_action_and_handle_exceptions, which removes the handler.
replace_handler(c, h, granted) ==
    LET made == make_data_transfer_handler(c)
    IN  IF made.thrown # "none"
        THEN log_and_remove_connection(
                 made, h, "unhandled_exception", "err", "exception caught")
        ELSE install(
                 [made EXCEPT
                     !.handlers[h].terminal =
                         Append(@, [event |-> "replaced", reason |-> "none"])],
                 granted)

\* The completion handler of write_whole in connect_method_handler_t: when
\* the response is sent the handler is replaced; an I/O error removes it
\* with io_error and a cancellation with current_operation_canceled.
write_whole_completion_handler(c, h, ec, granted) ==
    IF ec = success
    THEN replace_handler(c, h, granted)
    ELSE log_and_remove_connection(
             c, h,
             IF ec = "operation_aborted"
             THEN "current_operation_canceled" ELSE "io_error",
             "warn", "IO-error on writting non-empty buffer")

(***************************************************************************)
(* The events of a connection.                                             *)
(***************************************************************************)
\* No grant of the limiter is used by the callback.
NoGrant == [dir \in Directions |-> 0]

\* The callback has kept to the bound on the calls of reserve_read_portion.
WithinBounds(c) == Len(c.m_traffic_limiter.reservations) <= MaxReservations

\* The state of the connection when the completion handler of the i-th
\* outstanding operation starts.
Completed(i) == [Connection EXCEPT !.async_ops = RemoveAt(@, i)]

\* A CONNECT request was accepted and the target is connected: a
\* connect_method_handler_t is made, with a traffic limiter, installed in
\* the slot and started.
MakeConnectMethodHandler ==
    /\ handlers = << >>
    /\ thrown = "none"
    /\ Becomes(install(connect_method_handler_t(Connection), NoGrant))
    /\ UNCHANGED << config, steady_now >>
    /\ UNCHANGED agent_vars

\* make_data_transfer_handler is called for the connection by another
\* handler's code, with a limiter or with a null pointer; the handler it
\* returns is installed and started.
MakeDataTransferHandler ==
    /\ handlers = << >>
    /\ thrown = "none"
    /\ \E is_null \in BOOLEAN, granted \in Grants(config.io_chunk_size) :
           LET made ==
                   make_data_transfer_handler(
                       [Connection EXCEPT !.m_traffic_limiter.is_null = is_null])
           IN  Becomes(IF made.thrown # "none"
                       THEN made
                       ELSE install(made, granted))
    /\ UNCHANGED << config, steady_now >>
    /\ UNCHANGED agent_vars

\* The write of the positive response completes.
WriteWholeCompletion(i, ec) ==
    /\ async_ops[i].op = "write_whole"
    /\ slot = async_ops[i].handler
    /\ \E granted \in Grants(config.io_chunk_size) :
           Becomes(write_whole_completion_handler(
                       Completed(i), async_ops[i].handler, ec, granted))
    /\ UNCHANGED << config, steady_now >>
    /\ UNCHANGED agent_vars

WriteWholeSuccess(i) == WriteWholeCompletion(i, success)

WriteWholeFailure(i) ==
    \E ec \in IoErrors \ {"eof"} : WriteWholeCompletion(i, ec)

\* async_read_some completes with bytes of the peer, as many as the buffer
\* given to it takes at most: they are in m_data_read when the completion
\* handler runs.
ReadSuccess(i) ==
    /\ async_ops[i].op = "async_read_some"
    /\ slot = async_ops[i].handler
    /\ \E bytes \in 1..async_ops[i].size :
           LET op == async_ops[i]
               first == Len(stream[op.src_dir].read) + 1
               data == SourceBytes(first, first + bytes - 1)
               filled ==
                   [Completed(i) EXCEPT
                       !.direction_state[op.src_dir].m_data_read =
                           [k \in DOMAIN @ |-> IF k <= bytes THEN data[k] ELSE @[k]],
                       !.stream[op.src_dir].read = @ \o data]
           IN  /\ Len(stream[op.src_dir].read) + bytes <= MaxBytes
               /\ Becomes(read_completion_handler(
                              filled, op.handler, op.src_dir, op.dest_dir,
                              op.reserved_capacity, success, bytes))
    /\ UNCHANGED << config, steady_now >>
    /\ UNCHANGED agent_vars

\* async_read_some completes with an error: the peer closed its side, the
\* operation was cancelled, or the connection failed.
ReadFailureWith(i, ec) ==
    /\ async_ops[i].op = "async_read_some"
    /\ slot = async_ops[i].handler
    /\ LET op == async_ops[i]
       IN  Becomes(read_completion_handler(
                       Completed(i), op.handler, op.src_dir, op.dest_dir,
                       op.reserved_capacity, ec, 0))
    /\ UNCHANGED << config, steady_now >>
    /\ UNCHANGED agent_vars

ReadFailure(i) == \E ec \in IoErrors : ReadFailureWith(i, ec)

\* asio::async_write completes without an error: all the bytes given to
\* it, which are the first size bytes of the buffer, are written.
WriteSuccess(i) ==
    /\ async_ops[i].op = "async_write"
    /\ slot = async_ops[i].handler
    /\ \E capacity \in 0..m_io_chunk_size :
           LET op == async_ops[i]
               written ==
                   [Completed(i) EXCEPT
                       !.stream[op.src_dir].delivered =
                           @ \o SubSeq(direction_state[op.src_dir].m_data_read,
                                       1, op.size)]
               done == on_write_result(
                           written, op.handler, op.dest_dir, op.src_dir,
                           success, op.size, capacity)
           IN  /\ WithinBounds(done)
               /\ Becomes(done)
    /\ UNCHANGED << config, steady_now >>
    /\ UNCHANGED agent_vars

\* asio::async_write completes with an error.
WriteFailure(i) ==
    /\ async_ops[i].op = "async_write"
    /\ slot = async_ops[i].handler
    /\ \E ec \in IoErrors \ {"eof"} :
           LET op == async_ops[i]
           IN  Becomes(on_write_result(
                           Completed(i), op.handler, op.dest_dir, op.src_dir,
                           ec, 0, 0))
    /\ UNCHANGED << config, steady_now >>
    /\ UNCHANGED agent_vars

\* An operation of a handler that is no more in the slot completes: the
\* completion handler made by make_handler finds the handler gone and drops
\* the completion.
DroppedCompletion(i) ==
    /\ slot # async_ops[i].handler
    /\ Becomes(Completed(i))
    /\ UNCHANGED << config, steady_now >>
    /\ UNCHANGED agent_vars

\* connection_handler_t::on_timer of the handler in the slot.
on_timer(c, h, granted) ==
    IF c.handlers[h].name = "data-transfer-handler"
    THEN data_transfer_on_timer_impl(c, h, granted)
    ELSE connect_method_on_timer_impl(c, h)

\* The periodic timer of the connections fires.
Timer ==
    /\ slot # 0
    /\ \E granted \in Grants(m_io_chunk_size) :
           /\ WithinBounds(on_timer(Connection, slot, granted))
           /\ Becomes(on_timer(Connection, slot, granted))
    /\ UNCHANGED << config, steady_now >>
    /\ UNCHANGED agent_vars

\* The steady clock advances while the connection is served.
SteadyClockAdvance ==
    /\ slot # 0
    /\ steady_now < MaxClock
    /\ steady_now' = steady_now + 1
    /\ UNCHANGED << config, slot, handlers, sockets, m_traffic_limiter,
                    m_created_at, m_io_chunk_size, direction_state,
                    m_last_read_at, async_ops, stream, logged, thrown >>
    /\ UNCHANGED agent_vars

\* A connection is accepted under some configuration; the agent is left as
\* constructed.
ConnectionInit ==
    /\ a_dns_resolver_t
    /\ m_cache_cleanup_period = ClockStep
    /\ \E cfg \in Configs : accepted(cfg)

ConnectionNext ==
    \/ MakeConnectMethodHandler
    \/ MakeDataTransferHandler
    \/ \E i \in DOMAIN async_ops : WriteWholeSuccess(i)
    \/ \E i \in DOMAIN async_ops : WriteWholeFailure(i)
    \/ \E i \in DOMAIN async_ops : ReadSuccess(i)
    \/ \E i \in DOMAIN async_ops : ReadFailure(i)
    \/ \E i \in DOMAIN async_ops : WriteSuccess(i)
    \/ \E i \in DOMAIN async_ops : WriteFailure(i)
    \/ \E i \in DOMAIN async_ops : DroppedCompletion(i)
    \/ Timer
    \/ SteadyClockAdvance

ConnectionSpec == ConnectionInit /\ [][ConnectionNext]_vars

\* The timer of the connections is periodic and the steady clock goes on:
\* a tick that stays possible is delivered, and time passes.  The
\* connection is followed for the chunk sizes 0 and 1: a larger chunk only
\* lets one read take more bytes.
LiveConnectionInit ==
    /\ ConnectionInit
    /\ config.io_chunk_size <= 1

LiveConnectionSpec ==
    /\ LiveConnectionInit
    /\ [][ConnectionNext]_vars
    /\ WF_vars(Timer)
    /\ WF_vars(SteadyClockAdvance)

(***************************************************************************)
(* Properties of the connection handlers.                                  *)
(***************************************************************************)
\* The outstanding operations that use the buffer of the direction: the
\* reads into it and the writes out of it.
OpsOnBuffer(dir) ==
    { i \in DOMAIN async_ops :
          /\ async_ops[i].op \in {"async_read_some", "async_write"}
          /\ async_ops[i].src_dir = dir }

\* C12: in every reachable state, for each direction, at most one
\* asynchronous operation that uses the buffer of the direction is
\* outstanding: one read into it or one write out of it, never both and
\* never two of a kind.
C12_AtMostOneOperationPerBuffer ==
    \A dir \in Directions : Cardinality(OpsOnBuffer(dir)) <= 1

\* The first reservation, for user-end at on_start, was granted nothing; a
\* later tick of the timer has started the read of user-end, which is
\* outstanding while the data read from target-end is being written.
C12_Witness ==
    /\ Len(m_traffic_limiter.reservations) = 3
    /\ m_traffic_limiter.reservations[1] =
           [direction |-> "from_user", m_capacity |-> 0, n_released |-> 0]
    /\ \E i \in OpsOnBuffer("user-end") :
           /\ async_ops[i].op = "async_read_some"
           /\ async_ops[i].reserved_capacity = 3
    /\ \E i \in OpsOnBuffer("target-end") : async_ops[i].op = "async_write"
    /\ slot # 0

\* The first sequence is the beginning of the second one.
IsPrefix(s, t) == Len(s) <= Len(t) /\ SubSeq(t, 1, Len(s)) = s

\* C13: for each direction, at every moment the bytes handed to writes on
\* the sink are a prefix of the bytes read from the source, in the same
\* order, with no byte lost, repeated or out of place, and so are the bytes
\* the sink has got; after each successful write completion the sequences
\* are equal.
C13_SinkGetsWhatWasRead ==
    [][/\ \A dir \in Directions :
              /\ IsPrefix(stream'[dir].handed, stream'[dir].read)
              /\ IsPrefix(stream'[dir].delivered, stream'[dir].handed)
       /\ \A i \in DOMAIN async_ops :
              WriteSuccess(i)
              => /\ stream'[async_ops[i].src_dir].handed =
                        stream'[async_ops[i].src_dir].read
                 /\ stream'[async_ops[i].src_dir].delivered =
                        stream'[async_ops[i].src_dir].read]_vars

\* With buffers of one byte, user-end has been read twice: the first byte
\* is written to target-end and the second one is being written.
C13_Witness ==
    /\ m_io_chunk_size = 1
    /\ stream["user-end"].read = << 1, 2 >>
    /\ stream["user-end"].handed = << 1, 2 >>
    /\ stream["user-end"].delivered = << 1 >>
    /\ \E i \in OpsOnBuffer("user-end") : async_ops[i].op = "async_write"

\* The reason the read-error policy names for an error of a read.
ReadErrorPolicy(ec, channel_is_open) ==
    CASE ec = "eof" -> "normal_completion"
      [] ec = "operation_aborted" -> "current_operation_canceled"
      [] OTHER -> IF channel_is_open
                  THEN "io_error"
                  ELSE "current_operation_canceled"

\* C14: a read completion with an error, on either direction, removes the
\* handler in that same callback and starts no write; the reason is
\* normal_completion for EOF, current_operation_canceled for
\* operation_aborted, io_error for any other error while the source socket
\* is open and current_operation_canceled for any other error when the
\* source socket is closed already.
C14_ReadErrorRemovesHandler ==
    [][/\ \A ec \in IoErrors : \A channel_is_open \in BOOLEAN :
              remove_reason_of_read(ec, channel_is_open)
                  = Some(ReadErrorPolicy(ec, channel_is_open))
       /\ \A i \in DOMAIN async_ops : \A ec \in IoErrors :
              ReadFailureWith(i, ec)
              => /\ slot' = 0
                 /\ handlers'[async_ops[i].handler].terminal =
                        << [ event  |-> "removed",
                             reason |-> ReadErrorPolicy(
                                 ec,
                                 sockets[Channel(async_ops[i].src_dir)].is_open) ] >>
                 /\ ~ direction_state'[async_ops[i].src_dir].m_is_alive
                 /\ async_ops' = RemoveAt(async_ops, i)
                 /\ stream' = stream]_vars

\* The read of target-end has failed with an I/O error while the read of
\* user-end was outstanding: the handler is removed with io_error, and the
\* error is logged.
C14_Witness ==
    /\ slot = 0
    /\ Len(handlers) = 1
    /\ handlers[1].terminal = << [event |-> "removed", reason |-> "io_error"] >>
    /\ ~ direction_state["target-end"].m_is_alive
    /\ direction_state["user-end"].m_is_alive
    /\ \E i \in OpsOnBuffer("user-end") : async_ops[i].op = "async_read_some"
    /\ \E k \in DOMAIN logged : logged[k].level = "debug"

\* The reads of both directions are outstanding for the handler in the slot.
BothReadsOutstanding ==
    \A dir \in Directions :
        \E i \in OpsOnBuffer(dir) :
            /\ async_ops[i].op = "async_read_some"
            /\ async_ops[i].handler = slot

\* C15: when the reads of both directions end with EOF, the completion
\* that is processed first removes the handler, once, with
\* normal_completion, and closes each socket once; the completion that is
\* processed after it finds the handler gone and changes nothing: no
\* removal, no close, no new operation.
C15_SimultaneousEofRemovesOnce ==
    [][/\ \A i \in DOMAIN async_ops :
              (BothReadsOutstanding /\ ReadFailureWith(i, "eof"))
              => /\ slot' = 0
                 /\ handlers'[async_ops[i].handler].terminal =
                        << [event |-> "removed", reason |-> "normal_completion"] >>
                 /\ \A ch \in Channels :
                        /\ ~ sockets'[ch].is_open
                        /\ sockets'[ch].n_close = 1
                 /\ async_ops' = RemoveAt(async_ops, i)
       /\ \A i \in DOMAIN async_ops :
              DroppedCompletion(i)
              => /\ async_ops' = RemoveAt(async_ops, i)
                 /\ logged' = << >>
                 /\ UNCHANGED << slot, handlers, sockets, m_traffic_limiter,
                                 m_created_at, m_io_chunk_size, direction_state,
                                 m_last_read_at, stream, thrown >>]_vars

\* Both reads were outstanding when the first EOF removed the handler; the
\* completion of the other read has been dropped: nothing is outstanding,
\* one direction is still marked alive and each socket was closed once.
C15_Witness ==
    /\ slot = 0
    /\ Len(handlers) = 1
    /\ handlers[1].terminal =
           << [event |-> "removed", reason |-> "normal_completion"] >>
    /\ async_ops = << >>
    /\ Len(m_traffic_limiter.reservations) = 2
    /\ \A k \in 1..2 : m_traffic_limiter.reservations[k].m_capacity > 0
    /\ \E dir \in Directions :
           /\ direction_state[dir].m_is_alive
           /\ ~ direction_state[Opposite(dir)].m_is_alive
    /\ \A ch \in Channels : sockets[ch].n_close = 1

\* The handler that served the connection is gone and no operation of it
\* is outstanding any more.
HandlerGone ==
    /\ handlers # << >>
    /\ slot = 0
    /\ async_ops = << >>

\* C16: every reservation that reserve_read_portion gave to the
\* data-transfer handler is released exactly once, whether its read
\* succeeds, fails or is cancelled by the removal of the handler, and
\* whether its capacity is zero or positive: no reservation is released
\* twice, and none is unreleased when the handler is gone.
C16_EveryReservationReleasedOnce ==
    /\ \A k \in DOMAIN m_traffic_limiter.reservations :
           m_traffic_limiter.reservations[k].n_released <= 1
    /\ HandlerGone
           => \A k \in DOMAIN m_traffic_limiter.reservations :
                  m_traffic_limiter.reservations[k].n_released = 1

\* The operations of handler h among ops.
OpsOf(ops, h) == { ops[i] : i \in { j \in DOMAIN ops : ops[j].handler = h } }

\* Every handler that was made got on_start once, has at most one terminal
\* event, and is in the slot exactly as long as it has none.
OneStartOneEnd ==
    \A h \in DOMAIN handlers :
        /\ handlers[h].n_on_start = 1
        /\ Len(handlers[h].terminal) <= 1
        /\ (slot = h) <=> (handlers[h].terminal = << >>)

\* A step leaves a handler that has its terminal event, at the latest after
\* the step, without a new operation; a handler that had it before the step
\* is left as it was, and after a removal nothing of the connection changes
\* but the outstanding operations, which are dropped.
NothingAfterTheEnd ==
    \A h \in DOMAIN handlers :
        /\ handlers'[h].terminal # << >>
               => OpsOf(async_ops', h) \subseteq OpsOf(async_ops, h)
        /\ handlers[h].terminal # << >>
               => /\ handlers'[h] = handlers[h]
                  /\ handlers[h].name = "http-connect-method-handler"
                         => m_created_at' = m_created_at
                  /\ handlers[h].terminal[1].event = "removed"
                         => UNCHANGED << slot, handlers, sockets,
                                         m_traffic_limiter, m_created_at,
                                         m_io_chunk_size, direction_state,
                                         m_last_read_at, stream >>

ReadsOf(ops, h, dir) ==
    { op \in OpsOf(ops, h) : op.op = "async_read_some" /\ op.src_dir = dir }

\* The step replaced handler h by a data-transfer handler, which owns both
\* sockets, still open, and the traffic limiter, and was started.
HandedOver(h) ==
    /\ handlers'[h] =
           [handlers[h] EXCEPT
               !.terminal = << [event |-> "replaced", reason |-> "none"] >>]
    /\ Len(handlers') = Len(handlers) + 1
    /\ slot' = Len(handlers')
    /\ handlers'[slot'] = [ name       |-> "data-transfer-handler",
                            n_on_start |-> 1,
                            terminal   |-> << >> ]
    /\ \A ch \in Channels :
           sockets'[ch] = [sockets[ch] EXCEPT !.owner = slot']
    /\ \A ch \in Channels : sockets'[ch].is_open
    /\ m_traffic_limiter'.owner = slot'
    /\ ~ m_traffic_limiter'.is_null

\* The step removed handler h with the reason, and no handler was made.
RemovedWith(h, reason) ==
    /\ handlers' =
           [handlers EXCEPT
               ![h].terminal = << [event |-> "removed", reason |-> reason] >>]
    /\ slot' = 0

\* The CONNECT handler is replaced if and only if the write of the
\* response succeeds; an error of the write removes it with io_error and a
\* cancellation with current_operation_canceled.
ReplacedIffResponseWritten ==
    /\ \A i \in DOMAIN async_ops :
           /\ WriteWholeSuccess(i) => HandedOver(async_ops[i].handler)
           /\ WriteWholeCompletion(i, "operation_aborted")
                  => RemovedWith(async_ops[i].handler,
                                 "current_operation_canceled")
           /\ WriteWholeCompletion(i, "connection_reset")
                  => RemovedWith(async_ops[i].handler, "io_error")
    /\ (handlers # << >> /\ Len(handlers') > Len(handlers))
           => \E i \in DOMAIN async_ops : WriteWholeSuccess(i)

\* C18, as stated: the CONNECT handler is replaced by a data-transfer
\* handler if and only if the write of the positive response succeeds, the
\* successor owns both sockets and the traffic limiter, and its on_start
\* starts one read on each direction; an error of the write removes the
\* handler with io_error, a cancellation with current_operation_canceled.
C18_SuccessorReadsBothDirections ==
    [][/\ ReplacedIffResponseWritten
       /\ \A i \in DOMAIN async_ops :
              WriteWholeSuccess(i)
                  => \A dir \in Directions :
                         Cardinality(ReadsOf(async_ops', slot', dir)) = 1]_vars

\* C18, amended: the CONNECT handler is replaced by a data-transfer handler
\* if and only if the write of the positive response succeeds, and the
\* successor owns both sockets and the traffic limiter; its on_start asks
\* the limiter for one reservation per direction, user-end first, and
\* starts one read, of the reserved size, on each direction whose
\* reservation is not zero; a direction whose reservation is zero starts no
\* read and is marked as having exceeded its limit. An error of the write
\* removes the handler with io_error, a cancellation with
\* current_operation_canceled, and no successor is installed.
C18_SuccessorReadsWhatIsReserved ==
    [][/\ ReplacedIffResponseWritten
       /\ \A i \in DOMAIN async_ops :
              WriteWholeSuccess(i)
                  => LET n == Len(m_traffic_limiter.reservations)
                         reserved ==
                             [dir \in Directions |->
                                 m_traffic_limiter'.reservations[
                                     IF dir = "user-end" THEN n + 1 ELSE n + 2]]
                     IN  /\ Len(m_traffic_limiter'.reservations) = n + 2
                         /\ \A dir \in Directions :
                                /\ reserved[dir].direction = traffic_direction(dir)
                                /\ reserved[dir].m_capacity <= m_io_chunk_size'
                                /\ direction_state'[dir].m_is_traffic_limit_exceeded
                                       = (reserved[dir].m_capacity = 0)
                                /\ Cardinality(ReadsOf(async_ops', slot', dir))
                                       = IF reserved[dir].m_capacity = 0 THEN 0 ELSE 1
                                /\ \A op \in ReadsOf(async_ops', slot', dir) :
                                       op.size = reserved[dir].m_capacity]_vars

\* The successor was started with no quota for user-end and a quota for
\* target-end: it reads target-end only.
C18_Witness ==
    /\ Len(handlers) = 2
    /\ slot = 2
    /\ handlers[1].terminal = << [event |-> "replaced", reason |-> "none"] >>
    /\ handlers[2].n_on_start = 1
    /\ direction_state["user-end"].m_is_traffic_limit_exceeded
    /\ ReadsOf(async_ops, 2, "user-end") = {}
    /\ Cardinality(ReadsOf(async_ops, 2, "target-end")) = 1
    /\ m_last_read_at = steady_now

\* The CONNECT handler is in the slot.
ConnectMethodHandlerActive ==
    /\ slot # 0
    /\ handlers[slot].name = "http-connect-method-handler"

\* C19: on each on_timer tick of the CONNECT handler, if
\* now - created_at >= idle_connection_timeout, equality included, the
\* handler removes itself with no_activity_for_too_long and a warn log;
\* otherwise the tick changes nothing.
C19_ConnectTimerRemovesAtTimeout ==
    [][(ConnectMethodHandlerActive /\ Timer)
          => IF steady_now - m_created_at >= config.idle_connection_timeout
             THEN /\ RemovedWith(slot, "no_activity_for_too_long")
                  /\ Len(logged') = 1
                  /\ logged'[1].level = "warn"
             ELSE /\ logged' = << >>
                  /\ UNCHANGED << slot, handlers, sockets, m_traffic_limiter,
                                  m_created_at, async_ops >>]_vars

\* A data-transfer handler was constructed and is or was in the slot.
DataTransferHandlers ==
    { h \in DOMAIN handlers : handlers[h].name = "data-transfer-handler" }

\* C20: constructing the data-transfer handler with a null traffic limiter,
\* or with a configuration whose io_chunk_size is zero, fails in the
\* constructor, which throws and leaves no handler; no data-transfer
\* handler with io_chunk_size = 0 ever becomes active.
C20_ConstructorRejectsBadArguments ==
    /\ [](\A h \in DataTransferHandlers :
              /\ ~ m_traffic_limiter.is_null
              /\ m_io_chunk_size > 0)
    /\ [][MakeDataTransferHandler
             => IF m_traffic_limiter'.is_null \/ config.io_chunk_size = 0
                THEN /\ thrown' # "none"
                     /\ handlers' = << >>
                     /\ slot' = 0
                     /\ async_ops' = << >>
                ELSE /\ thrown' = "none"
                     /\ DataTransferHandlers' = {1}
                     /\ slot' = 1]_vars

\* The data-transfer handler is in the slot.
DataTransferHandlerActive ==
    /\ slot # 0
    /\ handlers[slot].name = "data-transfer-handler"

\* The writes of the buffer of direction dir that handler h has outstanding
\* among ops.
WritesOf(ops, h, dir) ==
    { op \in OpsOf(ops, h) : op.op = "async_write" /\ op.src_dir = dir }

\* C21: in every state of a live data-transfer handler, between its
\* callbacks, for each direction m_data_size > 0 implies that a write of
\* that direction's buffer is outstanding, and no read of the direction is
\* outstanding while its m_data_size > 0.
C21_DataSizeMeansWriteInFlight ==
    DataTransferHandlerActive
        => \A dir \in Directions :
               direction_state[dir].m_data_size > 0
                   => /\ WritesOf(async_ops, slot, dir) # {}
                      /\ ReadsOf(async_ops, slot, dir) = {}

\* The directions whose m_is_traffic_limit_exceeded is set.
LimitExceeded ==
    { dir \in Directions : direction_state[dir].m_is_traffic_limit_exceeded }

\* The step re-attempted the read of exactly the directions of LimitExceeded,
\* user-end first: one reservation each, a read when the reservation is not
\* zero, and the flag set iff it is zero; the other directions are left as
\* they were.
ReadsReattempted ==
    LET n == Len(m_traffic_limiter.reservations)
        reserved(dir) ==
            m_traffic_limiter'.reservations[
                IF dir = "user-end" \/ "user-end" \notin LimitExceeded
                THEN n + 1 ELSE n + 2]
    IN  /\ slot' = slot
        /\ handlers' = handlers
        /\ Len(m_traffic_limiter'.reservations) = n + Cardinality(LimitExceeded)
        /\ \A dir \in Directions \ LimitExceeded :
               /\ direction_state'[dir] = direction_state[dir]
               /\ ReadsOf(async_ops', slot, dir) = ReadsOf(async_ops, slot, dir)
        /\ \A dir \in LimitExceeded :
               /\ reserved(dir).direction = traffic_direction(dir)
               /\ direction_state'[dir].m_is_traffic_limit_exceeded
                      = (reserved(dir).m_capacity = 0)
               /\ Cardinality(ReadsOf(async_ops', slot, dir))
                      = IF reserved(dir).m_capacity = 0 THEN 0 ELSE 1

\* C22: on a timer tick of the data-transfer handler, if
\* now - last_read_at >= idle_connection_timeout, equality included, the
\* handler is removed with no_activity_for_too_long and no read is
\* re-attempted on that tick; otherwise a read is re-attempted for exactly
\* the directions whose is_traffic_limit_exceeded flag is set, and after
\* the re-attempt the flag is set iff the limiter again granted 0.
C22_DataTransferTimerTick ==
    [][(DataTransferHandlerActive /\ Timer)
          => IF steady_now - m_last_read_at >= config.idle_connection_timeout
             THEN /\ RemovedWith(slot, "no_activity_for_too_long")
                  /\ async_ops' = async_ops
                  /\ m_traffic_limiter'.reservations
                         = m_traffic_limiter.reservations
             ELSE ReadsReattempted]_vars

\* The reservations made for direction dir so far.
ReservationsFor(limiter, dir) ==
    { k \in DOMAIN limiter.reservations :
          limiter.reservations[k].direction = traffic_direction(dir) }

\* The limiter has granted 0 to direction dir on every reservation so far.
Capped(dir) ==
    \A k \in ReservationsFor(m_traffic_limiter, dir) :
        m_traffic_limiter.reservations[k].m_capacity = 0

\* No read was ever issued on a direction that is capped, and while the
\* handler is in the slot the direction is marked.
NoReadWhileCapped ==
    \A h \in DataTransferHandlers, dir \in Directions :
        Capped(dir)
            => /\ ReadsOf(async_ops, h, dir) = {}
               /\ stream[dir].read = << >>
               /\ slot = h => direction_state[dir].m_is_traffic_limit_exceeded

\* After on_start the reservation of a capped direction is made again by
\* timer ticks only, once a tick.
RetriedFromTimerOnly ==
    \A dir \in Directions :
        (DataTransferHandlerActive /\ Capped(dir)')
            => LET before == Cardinality(ReservationsFor(m_traffic_limiter, dir))
                   after == Cardinality(ReservationsFor(m_traffic_limiter', dir))
               IN  /\ after <= before + 1
                   /\ after > before => Timer

\* While a direction is capped and nothing was read from the other one, the
\* handler goes only by a failed read of the other direction or by a tick
\* after the idle timeout, with no_activity_for_too_long; a tick before the
\* timeout leaves it in the slot and a tick after it removes it.
AliveUntilIdleTimeout ==
    \A dir \in Directions :
        (/\ DataTransferHandlerActive
         /\ Capped(dir)
         /\ stream[Opposite(dir)].read = << >>)
            => /\ slot' # slot
                      => \/ /\ Timer
                            /\ RemovedWith(slot, "no_activity_for_too_long")
                            /\ steady_now - m_last_read_at
                                   >= config.idle_connection_timeout
                         \/ \E i \in DOMAIN async_ops :
                                /\ async_ops[i].src_dir = Opposite(dir)
                                /\ ReadFailure(i)
               /\ (Timer /\ steady_now - m_last_read_at
                                 > config.idle_connection_timeout)
                      => slot' = 0

\* A handler whose idle timeout ends within the observed time, with a
\* capped direction, comes to its end unless the limiter grants something
\* to the direction or data arrives on the other one.
RemovedWhenIdle ==
    \A dir \in Directions :
        (/\ DataTransferHandlerActive
         /\ Capped(dir)
         /\ m_last_read_at + config.idle_connection_timeout < MaxClock)
            ~> \/ slot = 0
               \/ ~ Capped(dir)
               \/ stream[Opposite(dir)].read # << >>

WritesOutstanding ==
    { i \in DOMAIN async_ops :
          async_ops[i].op = "async_write" /\ async_ops[i].handler = slot }

\* c is the connection after its handler h was removed with io_error.
RemovedWithIoError(c, h) ==
    /\ c.slot = 0
    /\ c.handlers[h].terminal = << [event |-> "removed", reason |-> "io_error"] >>

\* What on_write_result does with the completion of every outstanding
\* write: an error, or a byte count that is not m_data_size, removes the
\* handler with io_error, the latter logged as critical.
WriteErrorPolicy ==
    \A i \in WritesOutstanding :
        LET op == async_ops[i]
            done(ec, bytes) ==
                on_write_result(Completed(i), op.handler, op.dest_dir,
                                op.src_dir, ec, bytes, 0)
        IN  \A bytes \in 0..MaxBytes :
                /\ \A ec \in IoErrors :
                       RemovedWithIoError(done(ec, bytes), op.handler)
                /\ bytes # direction_state[op.src_dir].m_data_size
                       => /\ RemovedWithIoError(done(success, bytes), op.handler)
                          /\ done(success, bytes).logged =
                                 << [level   |-> "critical",
                                     message |-> "unexpected write result"] >>

\* The step of a failed write removes the handler with io_error; the step
\* of a whole write leaves the handler in the slot, makes one reservation,
\* for the direction whose buffer was written, and leaves the reads of the
\* opposite direction as they were.
WriteCompletionSteps ==
    \A i \in WritesOutstanding :
        LET op == async_ops[i]
        IN  /\ WriteFailure(i) => RemovedWith(op.handler, "io_error")
            /\ WriteSuccess(i)
                   => /\ slot' = slot
                      /\ handlers' = handlers
                      /\ ReservationsFor(m_traffic_limiter', op.src_dir)
                             = ReservationsFor(m_traffic_limiter, op.src_dir)
                                   \cup {Len(m_traffic_limiter.reservations) + 1}
                      /\ ReservationsFor(m_traffic_limiter', op.dest_dir)
                             = ReservationsFor(m_traffic_limiter, op.dest_dir)
                      /\ ReadsOf(async_ops', slot, op.dest_dir)
                             = ReadsOf(async_ops, slot, op.dest_dir)
                      /\ direction_state'[op.dest_dir]
                             = direction_state[op.dest_dir]

\* C24, as stated: a write completion with an error removes the handler
\* with io_error; one without error whose byte count differs from
\* m_data_size removes it with io_error logged as critical; one with the
\* byte count equal to m_data_size starts the next read on the same source
\* direction and never on the opposite one.
C24_WriteCompletionStartsNextRead ==
    /\ []WriteErrorPolicy
    /\ [][/\ WriteCompletionSteps
          /\ \A i \in WritesOutstanding :
                 WriteSuccess(i)
                     => Cardinality(ReadsOf(async_ops', slot,
                                            async_ops[i].src_dir)) = 1]_vars

\* C24, amended: a write completion with an error removes the handler with
\* io_error; one without error whose byte count differs from m_data_size
\* removes it with io_error logged as critical; one with the byte count
\* equal to m_data_size initiates the next read on the same source
\* direction and never on the opposite one: one reservation is made for
\* the source direction, a read of the reserved size is started on it when
\* the reservation is not zero, and when it is zero no read is started and
\* the direction is marked as having exceeded its limit.
C24_WriteCompletionInitiatesNextRead ==
    /\ []WriteErrorPolicy
    /\ [][/\ WriteCompletionSteps
          /\ \A i \in WritesOutstanding :
                 WriteSuccess(i)
                     => LET src_dir == async_ops[i].src_dir
                            reserved ==
                                m_traffic_limiter'.reservations[
                                    Len(m_traffic_limiter.reservations) + 1]
                        IN  /\ direction_state'[src_dir].m_is_traffic_limit_exceeded
                                   = (reserved.m_capacity = 0)
                            /\ Cardinality(ReadsOf(async_ops', slot, src_dir))
                                   = IF reserved.m_capacity = 0 THEN 0 ELSE 1
                            /\ \A op \in ReadsOf(async_ops', slot, src_dir) :
                                   op.size = reserved.m_capacity]_vars

\* What was read from target-end was written to user-end, and the next
\* read of target-end is outstanding.
C24_Witness ==
    /\ DataTransferHandlerActive
    /\ stream["target-end"].delivered # << >>
    /\ stream["target-end"].delivered = stream["target-end"].read
    /\ ReadsOf(async_ops, slot, "target-end") # {}
    /\ WritesOf(async_ops, slot, "target-end") = {}

\* The deadlines that the observed clock reaches.
Deadlines == { k * ClockStep : k \in 1..(MaxTime \div ClockStep) }

\* From so_evt_start on, one clear_cache_t is pending.
OneTickPending ==
    /\ pc = "constructed" => delayed_clear_cache = << >>
    /\ pc = "started" => Len(delayed_clear_cache) = 1

\* so_evt_start and every processed tick arm one tick, a
\* cache_cleanup_period of that moment from now; the tick evicts what is
\* resolve_info_time_to_live old, whatever the period.
ArmedWithCurrentPeriod ==
    /\ so_evt_start
           => delayed_clear_cache' = << now + m_cache_cleanup_period >>
    /\ ClearCacheTick
           => /\ delayed_clear_cache' = << now + m_cache_cleanup_period >>
              /\ m_cache_cleanup_period' = m_cache_cleanup_period
              /\ DOMAIN m_cache' =
                     { n \in DOMAIN m_cache :
                           now - m_cache[n].m_creation_time
                               < resolve_info_time_to_live }
              /\ \A n \in DOMAIN m_cache' : m_cache'[n] = m_cache[n]

\* updated_dns_params_t changes the period and nothing else: the pending
\* tick keeps its deadline.
UpdateLeavesPendingTick ==
    UpdatedDnsParams
        => /\ m_cache_cleanup_period' # m_cache_cleanup_period
           /\ UNCHANGED << delayed_clear_cache, m_cache,
                           m_waiting_forward_requests, resolving, now >>

\* A pending tick whose deadline the clock reaches is processed.
TicksDelivered ==
    \A d \in Deadlines :
        (delayed_clear_cache = << d >>) ~> (delayed_clear_cache # << d >>)

\* C25: from the start of the agent on exactly one ClearCacheTick is
\* pending at any time, each processed tick arms exactly one, and a pending
\* tick is processed when its time has come; each re-arm uses the
\* cache_cleanup_period of that moment, so an UpdatedDnsParams message
\* changes only the delay of the re-arms made after it and leaves the
\* pending tick, the cache and the waiting list unchanged; the eviction
\* time to live stays 30 s whatever the period.
C25_OneTickPendingAndRearmed ==
    /\ []OneTickPending
    /\ [][ArmedWithCurrentPeriod /\ UpdateLeavesPendingTick]_vars
    /\ TicksDelivered

\* The period was doubled while the first tick was pending: the tick came
\* at its old deadline and the next one is armed with the new period.
C25_Witness ==
    /\ now = ClockStep
    /\ m_cache_cleanup_period = 2 * ClockStep
    /\ delayed_clear_cache = << now + 2 * ClockStep >>
    /\ last_cache_op.op = "remove_outdated_records"

====
